---- MODULE Spec2Model ----
(***************************************************************************)
(* Model of the GitHub dependents scraper (src/index.ts): the page loop of *)
(* startCrawl, the resume procedure, the per-page persist to the           *)
(* dependents file, and the pagination / extraction / dedup helpers.       *)
(*                                                                         *)
(* One behaviour is a session against one dependents file and one static   *)
(* listing: a sequence of processes (runs), each started with its own      *)
(* command line, each ending normally, by an error, or by being killed.    *)
(***************************************************************************)
EXTENDS Integers, Sequences, FiniteSets, TLC

\* ---------------------------------------------------------------- bounds
MaxPages == 2       \* pages of a generated listing
MaxRows == 1        \* data rows of one generated page
NumRepos == 1       \* distinct well-formed rows of generated listings
MaxRuns == 2        \* processes started in one session
MaxStore == 2       \* DedupSpec: records in the initial store
MaxBatch == 2       \* DedupSpec: records in the batch

\* ---------------------------------------------------------------- values
\* JavaScript null (previousGithubDependentsPageUrl: string | null).  Page
\* URLs are 1..n, the position of the page in the listing.
null == 0
\* about:blank, the page of a fresh browser tab
blankUrl == 0
\* a helper that throws
THROWS == -1
\* a missing command line argument
undefined == "<undefined>"

Range(s) == {s[i] : i \in 1..Len(s)}

RemoveAt(s, i) == [j \in 1..(Len(s) - 1) |-> IF j < i THEN s[j] ELSE s[j + 1]]

IsPrefix(s, t) == Len(s) <= Len(t) /\ \A i \in 1..Len(s) : s[i] = t[i]

\* interface Dependent
Dependent(owner, repo, stars, forks, url) ==
  [owner |-> owner, repo |-> repo, stars |-> stars, forks |-> forks,
   previousGithubDependentsPageUrl |-> url]

NoDependent == Dependent("", 0, 0, 0, null)

\* ---------------------------------------------------------------- listing
\* A data row of a listing page: its text either matches the row pattern of
\* parseDependents (and then yields owner, repo, stars, forks) or does not.
Row(repo) == [match |-> TRUE, owner |-> "o", repo |-> repo, stars |-> repo, forks |-> 0]

BadRow == [match |-> FALSE, owner |-> "", repo |-> 0, stars |-> 0, forks |-> 0]

RowUniverse == {Row(i) : i \in 1..NumRepos} \cup {BadRow}

PageContents == UNION {[1..k -> RowUniverse] : k \in 1..MaxRows}

\* How the listing renders a disabled pagination control: as a <button>
\* (no href) or as an <a disabled="disabled">.
Styles == {"button", "a"}

GeneratedListings ==
  {[pages |-> p, style |-> s] :
     p \in UNION {[1..n -> PageContents] : n \in 1..MaxPages}, s \in Styles}

\* The end-to-end scenario: 2 pages of 3 and 2 distinct rows.
ScenarioListing ==
  [pages |-> << <<Row(11), Row(12), Row(13)>>, <<Row(14), Row(15)>> >>,
   style |-> "button"]

Listings == GeneratedListings \cup {ScenarioListing}

VARIABLES
  listing,                  \* the remote listing (static during a session)
  store,                    \* content of dependentsFile: a JSON array
  run,                      \* processes started so far
  pc,                       \* position of the current process
  argv,                     \* process.argv.slice(2) of the current process
  resumeCrawl,              \* start: resumeCrawl
  page,                     \* the puppeteer page: the rendered DOM
  parsedDependents,         \* startCrawl: parsedDependents
  overwriteDependentsFile,  \* startCrawl: _overwriteDependentsFile
  lastDependent,            \* resumeCrawlFromFile: lastDependent
  nextPageUrl,              \* nextPageUrl (startCrawl, resumeCrawlFromFile)
  visited,                  \* history: URLs the page loop ran the extractor on
  wiped,                    \* history: this run's initialize discarded records
  error,                    \* message of the Error that ended the run ("" if none)
  batch                     \* DedupSpec: the batch appended twice

vars == <<listing, store, run, pc, argv, resumeCrawl, page, parsedDependents,
          overwriteDependentsFile, lastDependent, nextPageUrl, visited, wiped, error, batch>>

\* ---------------------------------------------------------------- DOM
Control(tag, disabled, href) == [tag |-> tag, disabled |-> disabled, href |-> href]

NumPages == Len(listing.pages)

DisabledControl == Control(listing.style, TRUE, null)

\* div.paginate-container > div : the Previous control, then the Next control
Controls(k) ==
  << IF k = 1 THEN DisabledControl ELSE Control("a", FALSE, k - 1),
     IF k = NumPages THEN DisabledControl ELSE Control("a", FALSE, k + 1) >>

BlankPage == [url |-> blankUrl, box |-> FALSE, rows |-> <<>>, controls |-> <<>>]

ListingPage(k) == [url |-> k, box |-> TRUE, rows |-> listing.pages[k], controls |-> Controls(k)]

\* the rate-limit page served instead of page k: no #dependents container
RateLimitPage(k) == [url |-> k, box |-> FALSE, rows |-> <<>>, controls |-> <<>>]

\* page k rendered without its pagination container
NoPagerPage(k) == [url |-> k, box |-> TRUE, rows |-> listing.pages[k], controls |-> <<>>]

\* page.goto(url): what the remote may serve
Goto(url) == {ListingPage(url), RateLimitPage(url), NoPagerPage(url)}

\* waitForSelector("... > div > a:nth-child(n)"): <<element>> or <<>> (timeout)
SelectAnchorNthChild(p, n) ==
  IF n <= Len(p.controls) /\ p.controls[n].tag = "a" THEN <<p.controls[n]>> ELSE <<>>

\* waitForSelector("... > div > <tag>"): the first such element
SelectFirst(p, tag) ==
  LET idx == {i \in 1..Len(p.controls) : p.controls[i].tag = tag}
  IN  IF idx = {} THEN <<>>
      ELSE <<p.controls[CHOOSE i \in idx : \A j \in idx : i <= j]>>

\* page.evaluate: null for a control marked disabled, else its href
EvaluateHref(el) == IF el.disabled THEN null ELSE el.href

getPreviousDependentsPageUrl(p) ==
  LET first == SelectAnchorNthChild(p, 1)
      button == SelectFirst(p, "button")
  IN  IF first # <<>> THEN EvaluateHref(first[1])
      ELSE IF button # <<>> THEN EvaluateHref(button[1])
      ELSE THROWS

\* mutant: no last-page return when the next anchor is missing
getNextDependentsPageUrlNoLastPage(p) ==
  LET second == SelectAnchorNthChild(p, 2)
      prev == getPreviousDependentsPageUrl(p)
      anchor == SelectFirst(p, "a")
  IN  IF second # <<>> THEN EvaluateHref(second[1])
      ELSE IF prev = THROWS THEN THROWS
      ELSE IF anchor # <<>> THEN EvaluateHref(anchor[1])
      ELSE THROWS

getNextDependentsPageUrl(p) ==
  LET second == SelectAnchorNthChild(p, 2)
      prev == getPreviousDependentsPageUrl(p)
      anchor == SelectFirst(p, "a")
  IN  IF second # <<>> THEN EvaluateHref(second[1])
      ELSE IF prev = THROWS THEN THROWS
      ELSE IF prev # null THEN null
      ELSE IF anchor # <<>> THEN EvaluateHref(anchor[1])
      ELSE THROWS

\* ---------------------------------------------------------------- extractor
\* div.Box-header, the first child of the container: the extractor skips it
\* by position, whatever its text
HeaderChild == [match |-> TRUE, owner |-> "header", repo |-> 0, stars |-> 0, forks |-> 0]

\* the children of #dependents > div.Box
Children(p) == <<HeaderChild>> \o p.rows

\* for (index..numberOfDependents): push the match, or log the row and go on
RECURSIVE ParseRows(_, _)
ParseRows(children, index) ==
  IF index > Len(children) THEN <<>>
  ELSE LET r == children[index]
       IN  (IF r.match THEN <<Dependent(r.owner, r.repo, r.stars, r.forks, null)>>
            ELSE <<>>) \o ParseRows(children, index + 1)

\* mutant: the loop starts at the first child
parseDependentsFromFirstChild(p) == ParseRows(Children(p), 1)

\* the Dependent[] of the page; called only when the container is found
parseDependents(p) == ParseRows(Children(p), 2)

\* ---------------------------------------------------------------- store
getDependentsFromFile == store

\* mutant: the file is rewritten with the batch alone
saveDependentsToFileNoConcat(dependents, overwrite) == dependents

saveDependentsToFile(dependents, overwrite) ==
  IF overwrite THEN dependents ELSE getDependentsFromFile \o dependents

\* for (const [index, d] of parsed.entries()) if (found) _parsed.splice(index, 1)
\* _parsed aliases parsed: the iterator's index advances over the spliced array.
RECURSIVE SpliceLoop(_, _, _)
SpliceLoop(arr, index, existing) ==
  IF index > Len(arr) THEN arr
  ELSE IF arr[index] \in Range(existing)
       THEN SpliceLoop(RemoveAt(arr, index), index + 1, existing)
       ELSE SpliceLoop(arr, index + 1, existing)

\* mutant: a dependent counts as found when owner and repo match
removeDuplicateDependentsByName(parsed) ==
  SelectSeq(parsed, LAMBDA d : ~\E e \in Range(getDependentsFromFile) :
                                  e.owner = d.owner /\ e.repo = d.repo)

removeDuplicateDependents(parsed) == SpliceLoop(parsed, 1, getDependentsFromFile)

\* mutant: only the first dependent of the batch is stamped
StampFirstOnly(dependents, url) ==
  [i \in 1..Len(dependents) |->
     IF i = 1 THEN [dependents[i] EXCEPT !.previousGithubDependentsPageUrl = url]
     ELSE dependents[i]]

\* dependent.previousGithubDependentsPageUrl = previousPageUrl, for each
Stamp(dependents, url) ==
  [i \in 1..Len(dependents) |->
     [dependents[i] EXCEPT !.previousGithubDependentsPageUrl = url]]

\* ---------------------------------------------------------------- getArgs
OwnerAndRepoArgs == {"owner/repo", "owner"}
DependentsFileArgs == {"deps.json", "deps.txt"}
ResumeCrawlArgs == {undefined, "true", "false", "yes"}

\* githubOwnerAndRepo.match(/(\S+\/\S+)/) !== null
MatchesOwnerAndRepo(s) == s \in {"owner/repo"}
\* dependentsFile.match(/\w+.json/)
MatchesJsonFile(s) == s \in {"deps.json"}
\* Boolean(x) of a string or undefined
Boolean(s) == s # undefined /\ s # ""

\* getArgs returns normally
ArgsAccepted(a) ==
  /\ a[1] # undefined /\ MatchesOwnerAndRepo(a[1])
  /\ a[2] # undefined /\ MatchesJsonFile(a[2])
  /\ a[3] \in {"false", "true", undefined}

getArgs(a) == <<a[1], a[2], Boolean(a[3])>>

\* ---------------------------------------------------------------- processes
\* the messages of the Errors the program throws
NoError == ""
ArgsError == "Unable to parse arguments"
EmptyFileError == "dependentsFile appears to be empty"
ParseError == "Unable to parse dependents"
PreviousError == "Unable to find Previous button"
NextError == "Unable to find Next button"

Stopped == {"idle", "DONE", "ABORTED", "REJECTED", "KILLED"}

\* the process ends: its locals and its browser are gone, the file stays
Exit(status) ==
  /\ pc' = status
  /\ page' = BlankPage
  /\ parsedDependents' = <<>>
  /\ overwriteDependentsFile' = FALSE
  /\ lastDependent' = NoDependent
  /\ nextPageUrl' = null

TypeOK ==
  /\ listing \in Listings
  /\ run \in 0..MaxRuns
  /\ resumeCrawl \in BOOLEAN
  /\ overwriteDependentsFile \in BOOLEAN
  /\ nextPageUrl \in 0..NumPages
  /\ page.url \in 0..NumPages

Init ==
  /\ listing \in Listings
  /\ store = <<>>
  /\ run = 0
  /\ pc = "idle"
  /\ argv = <<undefined, undefined, undefined>>
  /\ resumeCrawl = FALSE
  /\ page = BlankPage
  /\ parsedDependents = <<>>
  /\ overwriteDependentsFile = FALSE
  /\ lastDependent = NoDependent
  /\ nextPageUrl = null
  /\ visited = <<>>
  /\ wiped = FALSE
  /\ error = NoError
  /\ batch = <<>>

\* node index.js a[1] a[2] a[3]: getArgs, launchPuppeteer, and the branch of start
start(a) ==
  /\ pc \in Stopped
  /\ run < MaxRuns
  /\ run' = run + 1
  /\ argv' = a
  /\ visited' = <<>>
  /\ wiped' = FALSE
  /\ IF ArgsAccepted(a)
     THEN /\ resumeCrawl' = getArgs(a)[3]
          /\ pc' = IF getArgs(a)[3] THEN "resume" ELSE "gotoFirst"
          /\ page' = BlankPage
          /\ parsedDependents' = <<>>
          /\ overwriteDependentsFile' = FALSE
          /\ lastDependent' = NoDependent
          /\ nextPageUrl' = null
          /\ error' = NoError
     ELSE /\ resumeCrawl' = FALSE
          /\ error' = ArgsError
          /\ Exit("REJECTED")
  /\ UNCHANGED <<listing, store, batch>>

\* start: page.goto(https://github.com/<owner/repo>/network/dependents)
startGoto ==
  /\ pc = "gotoFirst"
  /\ page' \in Goto(1)
  /\ pc' = "initialize"
  /\ UNCHANGED <<listing, store, run, argv, resumeCrawl, parsedDependents,
                 overwriteDependentsFile, lastDependent, nextPageUrl, visited, wiped, error, batch>>

\* mutant: the initializing save is left out
startInitializeNoWipe ==
  /\ pc = "initialize"
  /\ overwriteDependentsFile' = TRUE
  /\ pc' = "parse"
  /\ UNCHANGED <<listing, store, run, argv, resumeCrawl, page, parsedDependents,
                 lastDependent, nextPageUrl, visited, wiped, error, batch>>

\* start: saveDependentsToFile(dependentsFile, [], true); startCrawl(.., true)
startInitialize ==
  /\ pc = "initialize"
  /\ store' = saveDependentsToFile(<<>>, TRUE)
  /\ wiped' = (store # <<>>)
  /\ overwriteDependentsFile' = TRUE
  /\ pc' = "parse"
  /\ UNCHANGED <<listing, run, argv, resumeCrawl, page, parsedDependents,
                 lastDependent, nextPageUrl, visited, error, batch>>

\* mutant: an empty file is not an error, the page loop is entered
resumeReadNoEmptyCheck ==
  /\ pc = "resume"
  /\ lastDependent' = IF store = <<>> THEN NoDependent ELSE store[Len(store)]
  /\ pc' = IF store # <<>> /\ store[Len(store)].previousGithubDependentsPageUrl # null
           THEN "resumeGoto" ELSE "parse"
  /\ UNCHANGED <<page, parsedDependents, overwriteDependentsFile, nextPageUrl>>
  /\ UNCHANGED <<listing, store, run, argv, resumeCrawl, visited, wiped, error, batch>>

\* mutant: a last dependent without a link means there is nothing to resume
resumeReadNullIsDone ==
  /\ pc = "resume"
  /\ IF getDependentsFromFile = <<>>
     THEN /\ Exit("ABORTED")
          /\ error' = EmptyFileError
     ELSE IF store[Len(store)].previousGithubDependentsPageUrl = null
     THEN /\ Exit("DONE")
          /\ error' = error
     ELSE /\ lastDependent' = store[Len(store)]
          /\ pc' = "resumeGoto"
          /\ UNCHANGED <<page, parsedDependents, overwriteDependentsFile, nextPageUrl, error>>
  /\ UNCHANGED <<listing, store, run, argv, resumeCrawl, visited, wiped, batch>>

\* mutant: the array the last dependent was popped from is written back
resumeReadPopsFile ==
  /\ pc = "resume"
  /\ IF getDependentsFromFile = <<>>
     THEN /\ Exit("ABORTED")
          /\ error' = EmptyFileError
          /\ store' = store
     ELSE /\ lastDependent' = store[Len(store)]
          /\ store' = SubSeq(store, 1, Len(store) - 1)
          /\ pc' = IF store[Len(store)].previousGithubDependentsPageUrl # null
                   THEN "resumeGoto" ELSE "parse"
          /\ UNCHANGED <<page, parsedDependents, overwriteDependentsFile, nextPageUrl, error>>
  /\ UNCHANGED <<listing, run, argv, resumeCrawl, visited, wiped, batch>>

\* resumeCrawlFromFile: read the file, pop the last dependent
resumeRead ==
  /\ pc = "resume"
  /\ IF getDependentsFromFile = <<>>
     THEN /\ Exit("ABORTED")
          /\ error' = EmptyFileError
     ELSE /\ lastDependent' = store[Len(store)]
          /\ pc' = IF store[Len(store)].previousGithubDependentsPageUrl # null
                   THEN "resumeGoto" ELSE "parse"
          /\ UNCHANGED <<page, parsedDependents, overwriteDependentsFile, nextPageUrl, error>>
  /\ UNCHANGED <<listing, store, run, argv, resumeCrawl, visited, wiped, batch>>

\* resumeCrawlFromFile: page.goto(lastDependent.previousGithubDependentsPageUrl)
resumeGoto ==
  /\ pc = "resumeGoto"
  /\ page' \in Goto(lastDependent.previousGithubDependentsPageUrl)
  /\ pc' = "resumeNext"
  /\ UNCHANGED <<listing, store, run, argv, resumeCrawl, parsedDependents,
                 overwriteDependentsFile, lastDependent, nextPageUrl, visited, wiped, error, batch>>

\* mutant: the loop is entered at the stored page, without the advance
resumeNextNoAdvance ==
  /\ pc = "resumeNext"
  /\ pc' = "parse"
  /\ UNCHANGED <<page, parsedDependents, overwriteDependentsFile, lastDependent, nextPageUrl>>
  /\ UNCHANGED <<listing, store, run, argv, resumeCrawl, visited, wiped, error, batch>>

\* resumeCrawlFromFile: getNextDependentsPageUrl; exit(0) on null
resumeNext ==
  /\ pc = "resumeNext"
  /\ LET url == getNextDependentsPageUrl(page)
     IN  IF url = THROWS THEN Exit("ABORTED") /\ error' = NextError
         ELSE IF url = null THEN Exit("DONE") /\ error' = error
         ELSE /\ nextPageUrl' = url
              /\ pc' = "resumeAdvance"
              /\ UNCHANGED <<page, parsedDependents, overwriteDependentsFile, lastDependent, error>>
  /\ UNCHANGED <<listing, store, run, argv, resumeCrawl, visited, wiped, batch>>

\* resumeCrawlFromFile: page.goto(nextPageUrl), then startCrawl
resumeAdvance ==
  /\ pc = "resumeAdvance"
  /\ page' \in Goto(nextPageUrl)
  /\ pc' = "parse"
  /\ UNCHANGED <<listing, store, run, argv, resumeCrawl, parsedDependents,
                 overwriteDependentsFile, lastDependent, nextPageUrl, visited, wiped, error, batch>>

\* mutant: an undefined result is taken for an empty batch
crawlParseNoAbort ==
  /\ pc = "parse"
  /\ visited' = Append(visited, page.url)
  /\ parsedDependents' = IF page.box THEN parseDependents(page) ELSE <<>>
  /\ pc' = "dedup"
  /\ UNCHANGED <<page, overwriteDependentsFile, lastDependent, nextPageUrl, error>>
  /\ UNCHANGED <<listing, store, run, argv, resumeCrawl, wiped, batch>>

\* startCrawl: parseDependents(page); undefined aborts
crawlParse ==
  /\ pc = "parse"
  /\ visited' = Append(visited, page.url)
  /\ IF page.box
     THEN /\ parsedDependents' = parseDependents(page)
          /\ pc' = "dedup"
          /\ UNCHANGED <<page, overwriteDependentsFile, lastDependent, nextPageUrl, error>>
     ELSE Exit("ABORTED") /\ error' = ParseError
  /\ UNCHANGED <<listing, store, run, argv, resumeCrawl, wiped, batch>>

\* startCrawl: removeDuplicateDependents(dependentsFile, parsedDependents)
crawlDedup ==
  /\ pc = "dedup"
  /\ parsedDependents' = removeDuplicateDependents(parsedDependents)
  /\ pc' = "previous"
  /\ UNCHANGED <<listing, store, run, argv, resumeCrawl, page,
                 overwriteDependentsFile, lastDependent, nextPageUrl, visited, wiped, error, batch>>

\* mutant: the batch is stamped and the loop goes on to the next-link lookup
crawlPreviousNoSave ==
  /\ pc = "previous"
  /\ LET previousPageUrl == getPreviousDependentsPageUrl(page)
     IN  IF previousPageUrl = THROWS THEN Exit("ABORTED") /\ error' = PreviousError
         ELSE /\ parsedDependents' =
                   IF previousPageUrl # null
                   THEN Stamp(parsedDependents, previousPageUrl)
                   ELSE parsedDependents
              /\ pc' = "next"
              /\ UNCHANGED <<page, overwriteDependentsFile, lastDependent, nextPageUrl, error>>
  /\ UNCHANGED <<listing, store, run, argv, resumeCrawl, visited, wiped, batch>>

\* startCrawl: getPreviousDependentsPageUrl and the stamping loop
crawlPrevious ==
  /\ pc = "previous"
  /\ LET previousPageUrl == getPreviousDependentsPageUrl(page)
     IN  IF previousPageUrl = THROWS THEN Exit("ABORTED") /\ error' = PreviousError
         ELSE /\ parsedDependents' =
                   IF previousPageUrl # null
                   THEN Stamp(parsedDependents, previousPageUrl)
                   ELSE parsedDependents
              /\ pc' = "save"
              /\ UNCHANGED <<page, overwriteDependentsFile, lastDependent, nextPageUrl, error>>
  /\ UNCHANGED <<listing, store, run, argv, resumeCrawl, visited, wiped, batch>>

\* mutant: _overwriteDependentsFile is not cleared after the save
crawlSaveKeepsOverwrite ==
  /\ pc = "save"
  /\ store' = saveDependentsToFile(parsedDependents, overwriteDependentsFile)
  /\ pc' = "next"
  /\ UNCHANGED <<listing, run, argv, resumeCrawl, page, parsedDependents,
                 overwriteDependentsFile, lastDependent, nextPageUrl, visited, wiped,
                 error, batch>>

\* startCrawl: saveDependentsToFile, then _overwriteDependentsFile = false
crawlSave ==
  /\ pc = "save"
  /\ store' = saveDependentsToFile(parsedDependents, overwriteDependentsFile)
  /\ overwriteDependentsFile' = FALSE
  /\ pc' = "next"
  /\ UNCHANGED <<listing, run, argv, resumeCrawl, page, parsedDependents,
                 lastDependent, nextPageUrl, visited, wiped, error, batch>>

\* mutant: a failed lookup is logged and the loop is left as on the last page
crawlNextSwallowsError ==
  /\ pc = "next"
  /\ LET url == getNextDependentsPageUrl(page)
     IN  IF url = THROWS THEN Exit("DONE") /\ error' = NextError
         ELSE IF url = null THEN Exit("DONE") /\ error' = error
         ELSE /\ nextPageUrl' = url
              /\ pc' = "goto"
              /\ UNCHANGED <<page, parsedDependents, overwriteDependentsFile, lastDependent, error>>
  /\ UNCHANGED <<listing, store, run, argv, resumeCrawl, visited, wiped, batch>>

\* startCrawl: getNextDependentsPageUrl; null ends the loop
crawlNext ==
  /\ pc = "next"
  /\ LET url == getNextDependentsPageUrl(page)
     IN  IF url = THROWS THEN Exit("ABORTED") /\ error' = NextError
         ELSE IF url = null THEN Exit("DONE") /\ error' = error
         ELSE /\ nextPageUrl' = url
              /\ pc' = "goto"
              /\ UNCHANGED <<page, parsedDependents, overwriteDependentsFile, lastDependent, error>>
  /\ UNCHANGED <<listing, store, run, argv, resumeCrawl, visited, wiped, batch>>

\* startCrawl: page.goto(nextPageUrl)
crawlGoto ==
  /\ pc = "goto"
  /\ page' \in Goto(nextPageUrl)
  /\ pc' = "parse"
  /\ UNCHANGED <<listing, store, run, argv, resumeCrawl, parsedDependents,
                 overwriteDependentsFile, lastDependent, nextPageUrl, visited, wiped, error, batch>>

\* the process is terminated from outside at any point of a run
Interrupt ==
  /\ pc \notin Stopped
  /\ Exit("KILLED")
  /\ UNCHANGED <<listing, store, run, argv, resumeCrawl, visited, wiped, error, batch>>

Next ==
  \/ \E a \in OwnerAndRepoArgs \X DependentsFileArgs \X ResumeCrawlArgs : start(a)
  \/ startGoto
  \/ startInitialize
  \/ resumeRead
  \/ resumeGoto
  \/ resumeNext
  \/ resumeAdvance
  \/ crawlParse
  \/ crawlDedup
  \/ crawlPrevious
  \/ crawlSave
  \/ crawlNext
  \/ crawlGoto
  \/ Interrupt

Spec == Init /\ [][Next]_vars

\* The runs left to themselves: no termination from outside.  Control is
\* sequential and every element wait is bounded by its timeout, so a step
\* that can be taken is taken.
RunNext ==
  \/ \E a \in OwnerAndRepoArgs \X DependentsFileArgs \X ResumeCrawlArgs : start(a)
  \/ startGoto
  \/ startInitialize
  \/ resumeRead
  \/ resumeGoto
  \/ resumeNext
  \/ resumeAdvance
  \/ crawlParse
  \/ crawlDedup
  \/ crawlPrevious
  \/ crawlSave
  \/ crawlNext
  \/ crawlGoto

LiveSpec == Init /\ [][RunNext]_vars /\ WF_vars(RunNext)

\* ---------------------------------------------------------------- DedupSpec
\* The dedup-then-append operation on its own: a store and a batch drawn from
\* bounded sets, the operation applied twice with the same batch.
DedupRecords == {Dependent("o", r, r, 0, u) : r \in 1..NumRepos, u \in {null, 1}}

SeqsUpTo(S, n) == UNION {[1..k -> S] : k \in 0..n}

DedupInit ==
  /\ listing = ScenarioListing
  /\ store \in SeqsUpTo(DedupRecords, MaxStore)
  /\ batch \in SeqsUpTo(DedupRecords, MaxBatch)
  /\ run = 0
  /\ pc = "dedup1"
  /\ argv = <<undefined, undefined, undefined>>
  /\ resumeCrawl = FALSE
  /\ page = BlankPage
  /\ parsedDependents = <<>>
  /\ overwriteDependentsFile = FALSE
  /\ lastDependent = NoDependent
  /\ nextPageUrl = null
  /\ visited = <<>>
  /\ wiped = FALSE
  /\ error = NoError

\* removeDuplicateDependents(dependentsFile, batch)
dedupBatch ==
  /\ pc \in {"dedup1", "dedup2"}
  /\ parsedDependents' = removeDuplicateDependents(batch)
  /\ pc' = IF pc = "dedup1" THEN "append1" ELSE "append2"
  /\ UNCHANGED <<listing, store, run, argv, resumeCrawl, page,
                 overwriteDependentsFile, lastDependent, nextPageUrl, visited, wiped, error, batch>>

\* saveDependentsToFile(dependentsFile, filtered, false)
appendBatch ==
  /\ pc \in {"append1", "append2"}
  /\ store' = saveDependentsToFile(parsedDependents, FALSE)
  /\ pc' = IF pc = "append1" THEN "dedup2" ELSE "appended"
  /\ UNCHANGED <<listing, run, argv, resumeCrawl, page, parsedDependents,
                 overwriteDependentsFile, lastDependent, nextPageUrl, visited, wiped, error, batch>>

DedupNext == dedupBatch \/ appendBatch

DedupSpec == DedupInit /\ [][DedupNext]_vars

\* ---------------------------------------------------------------- ParseSpec
\* The extractor on its own: a rendered page whose container is found, its
\* data rows drawn from a bounded set.
MaxParseRows == 4   \* ParseSpec: data rows of the page

ParseRowUniverse == {Row(1), Row(2), BadRow}

ParseInit ==
  /\ listing = ScenarioListing
  /\ \E rows \in SeqsUpTo(ParseRowUniverse, MaxParseRows) :
       page = [url |-> 1, box |-> TRUE, rows |-> rows, controls |-> <<>>]
  /\ store = <<>>
  /\ batch = <<>>
  /\ run = 0
  /\ pc = "parse"
  /\ argv = <<undefined, undefined, undefined>>
  /\ resumeCrawl = FALSE
  /\ parsedDependents = <<>>
  /\ overwriteDependentsFile = FALSE
  /\ lastDependent = NoDependent
  /\ nextPageUrl = null
  /\ visited = <<>>
  /\ wiped = FALSE
  /\ error = NoError

\* parseDependents(page)
parsePage ==
  /\ pc = "parse"
  /\ parsedDependents' = parseDependents(page)
  /\ pc' = "parsed"
  /\ UNCHANGED <<listing, store, run, argv, resumeCrawl, page,
                 overwriteDependentsFile, lastDependent, nextPageUrl, visited, wiped, error, batch>>

ParseNext == parsePage

ParseSpec == ParseInit /\ [][ParseNext]_vars

\* ---------------------------------------------------------------- properties
LoopPcs == {"parse", "dedup", "previous", "save", "next", "goto"}

Link(d) == d.previousGithubDependentsPageUrl

\* the records of listing page k as the page loop persists them
PageRecords(k) == Stamp(parseDependents(ListingPage(k)), k - 1)

RECURSIVE PagesRecords(_)
PagesRecords(n) == IF n = 0 THEN <<>> ELSE PagesRecords(n - 1) \o PageRecords(n)

RECURSIVE AllRows(_)
AllRows(n) == IF n = 0 THEN <<>> ELSE AllRows(n - 1) \o listing.pages[n]

\* every row well-formed, the rows pairwise distinct
CleanListing ==
  LET rows == AllRows(NumPages)
  IN  /\ \A i \in 1..Len(rows) : rows[i].match
      /\ \A i, j \in 1..Len(rows) : rows[i] = rows[j] => i = j

\* the page-loop step that persists the batch
PersistStep == pc = "save" /\ pc' = "next"

\* C1: no persist step of any run of a session (fresh start, aborts, resumed
\* runs) appends a record structurally equal to a record already in the store.
C1_NoDuplicatePersisted ==
  [][PersistStep =>
       \A i \in 1..Len(parsedDependents) : parsedDependents[i] \notin Range(store)]_vars

\* C2: already-persisted progress is never lost: apart from the initializing
\* wipe of a fresh start, every step of every run (persist, abort, kill, any
\* lookup or fetch) leaves the store's content as a prefix of the new content.
C2_ProgressKept == [][pc # "initialize" => IsPrefix(store, store')]_vars

\* a resumed run has appended a non-empty batch behind earlier content
C2_Witness ==
  /\ resumeCrawl /\ pc = "next"
  /\ parsedDependents # <<>>
  /\ Len(store) > Len(parsedDependents)

\* C3: a run resumed on a store whose last record has backward link P is
\* positioned at P, advanced along P's next link, and the first page the page
\* loop extracts is the page immediately following P.
C3_ResumePosition ==
  (resumeCrawl /\ pc \notin Stopped /\ pc # "resume" /\ Link(lastDependent) # null) =>
    /\ pc = "resumeNext" => page.url = Link(lastDependent)
    /\ pc = "resumeAdvance" => nextPageUrl = Link(lastDependent) + 1
    /\ (pc = "parse" /\ visited = <<>>) => page.url = Link(lastDependent) + 1
    /\ visited # <<>> => visited[1] = Link(lastDependent) + 1

\* resumed behind P = 1: page 2 is the first page extracted
C3_Witness ==
  /\ resumeCrawl /\ pc = "dedup"
  /\ Link(lastDependent) = 1
  /\ visited = <<2>>

\* C4: a run resumed on a non-empty store whose last record has no backward
\* link enters the page loop on the listing's first page.
C4_ResumeAtFirstPage ==
  (resumeCrawl /\ pc = "parse" /\ visited = <<>> /\ lastDependent # NoDependent
     /\ Link(lastDependent) = null) => page.url = 1

\* C5: the third argument selects the entry state: "false" or absent is a
\* fresh start, only "true" resumes, any other value is rejected.
C5_ResumeArgument ==
  (run > 0 /\ MatchesOwnerAndRepo(argv[1]) /\ MatchesJsonFile(argv[2])) =>
    /\ argv[3] \in {"false", undefined} => (pc # "REJECTED" /\ ~resumeCrawl)
    /\ argv[3] = "true" => (pc # "REJECTED" /\ resumeCrawl)
    /\ argv[3] \notin {"false", "true", undefined} => pc = "REJECTED"

\* C6: dedup-then-append twice with the same batch: the second append adds no
\* record.
C6_DedupIdempotent == [][pc = "append2" => store' = store]_vars

\* C7: a fresh start on a listing of pairwise distinct well-formed rows whose
\* pages are all served as they are never aborts, and when it is done the
\* store is the rows of pages 1..N in order, page k stamped with page k-1.
C7_FreshCrawl ==
  [][(~resumeCrawl /\ pc \in LoopPcs /\ CleanListing /\ page = ListingPage(page.url)) =>
       /\ pc' # "ABORTED"
       /\ pc' = "DONE" => store' = PagesRecords(NumPages)]_vars

\* C8: resuming on an empty store fails before any page is fetched: no
\* navigation, extraction or persist occurs and the store stays empty.
C8_ResumeEmptyStore ==
  [][pc = "resume" =>
       /\ page = BlankPage /\ visited = <<>>
       /\ store = <<>> =>
            (pc' \in {"ABORTED", "KILLED"} /\ store' = <<>> /\ page' = BlankPage
               /\ visited' = <<>>)]_vars

\* a resumed run has failed on the empty store
C8_Witness ==
  /\ resumeCrawl /\ pc = "ABORTED"
  /\ store = <<>> /\ visited = <<>>

\* C9: a fresh run wipes the store before its page loop: the store is empty
\* when the first page is extracted and every record in it later in the run
\* was extracted in that run; a resumed run never wipes.
C9_FreshWipes ==
  [][/\ (~resumeCrawl /\ pc \in LoopPcs) =>
          /\ visited = <<>> => store = <<>>
          /\ \A i \in 1..Len(store) : \E j \in 1..Len(visited) :
               /\ Link(store[i]) = visited[j] - 1
               /\ store[i] \in Range(PageRecords(visited[j]))
     /\ (resumeCrawl /\ pc \notin Stopped) =>
          (pc \notin {"gotoFirst", "initialize"} /\ IsPrefix(store, store'))]_vars

\* a fresh run that discarded earlier records has persisted its first page
C9_Witness ==
  /\ ~resumeCrawl /\ wiped /\ pc = "next"
  /\ store # <<>> /\ store = parsedDependents

\* the previous control of the rendered page
PreviousControl(p) == p.controls[1]

\* the page has no next link (no a:nth-child(2)) and has a previous link
LastPageControls(p) ==
  /\ SelectAnchorNthChild(p, 2) = <<>>
  /\ getPreviousDependentsPageUrl(p) \notin {null, THROWS}

\* C10: a disabled previous control resolves to "no previous page"; an absent
\* next control beside an existing previous link resolves to "no next page",
\* and the page loop then ends DONE, the page's batch already persisted.
C10_Boundary ==
  [][/\ (page.controls # <<>> /\ PreviousControl(page).disabled) =>
          getPreviousDependentsPageUrl(page) = null
     /\ LastPageControls(page) => getNextDependentsPageUrl(page) = null
     /\ (pc = "next" /\ LastPageControls(page)) =>
          /\ pc' \in {"DONE", "KILLED"}
          /\ store' = store
          /\ \E k \in 0..Len(store) : store = SubSeq(store, 1, k) \o parsedDependents]_vars

\* the loop has ended DONE on a last page reached from an earlier page
C10_Witness ==
  /\ pc = "DONE" /\ ~resumeCrawl
  /\ visited = <<1, 2>>
  /\ Len(store) >= 2

\* the well-formed rows, in row order, as records without a backward link
RECURSIVE MatchingRows(_)
MatchingRows(rows) ==
  IF rows = <<>> THEN <<>>
  ELSE IF Head(rows).match
       THEN <<Dependent(Head(rows).owner, Head(rows).repo, Head(rows).stars,
                        Head(rows).forks, null)>> \o MatchingRows(Tail(rows))
       ELSE MatchingRows(Tail(rows))

\* C11: for a page whose container is found, the extractor returns, in row
\* order, exactly the data rows that match the pattern: a malformed row is
\* skipped and the following rows are still extracted, the header child is
\* never returned, and every returned record has no backward link.
C11_ExtractorRows ==
  pc = "parsed" =>
    /\ parsedDependents = MatchingRows(page.rows)
    /\ \A i \in 1..Len(parsedDependents) :
         /\ Link(parsedDependents[i]) = null
         /\ parsedDependents[i].owner # HeaderChild.owner

\* a malformed row between two well-formed rows has been skipped
C11_Witness ==
  /\ pc = "parsed"
  /\ Len(page.rows) = 3
  /\ page.rows[1].match /\ ~page.rows[2].match /\ page.rows[3].match
  /\ Len(parsedDependents) = 2

\* the dedup step of DedupSpec has filtered the batch against the store
Filtered == pc \in {"append1", "append2"}

\* C12: the batch returned by the dedup step contains no record structurally
\* equal to a record of the store, whatever the store and the batch.
C12_NoDuplicateLeft ==
  Filtered => \A i \in 1..Len(parsedDependents) : parsedDependents[i] \notin Range(store)

\* the last Len(t) records of s are t
IsSuffix(t, s) ==
  /\ Len(t) <= Len(s)
  /\ \A i \in 1..Len(t) : s[Len(s) - Len(t) + i] = t[i]

\* C13: every record the page loop persists carries the previous-page link of
\* the page it was extracted from (none on the first page); the records of
\* one persist step carry the same link, stamped before the persist.
C13_Stamping ==
  [][PersistStep =>
       /\ \A i \in 1..Len(parsedDependents) :
            /\ Link(parsedDependents[i]) = getPreviousDependentsPageUrl(page)
            /\ Link(parsedDependents[i]) = page.url - 1
       /\ IsSuffix(parsedDependents, store')
       /\ Len(store') = (IF overwriteDependentsFile THEN 0 ELSE Len(store))
                          + Len(parsedDependents)]_vars

\* the records of page 2 have been persisted with the link to page 1
C13_Witness ==
  /\ pc = "next" /\ page.url = 2
  /\ Len(parsedDependents) >= 2
  /\ \A i \in 1..Len(parsedDependents) : Link(parsedDependents[i]) = 1
  /\ IsSuffix(parsedDependents, store)

\* the run has ended, by itself or from outside
Ended == {"ABORTED", "KILLED"}

\* C14: when the entries container is not found the run aborts: no dedup,
\* stamping, persist or navigation follows for that page, and the store is
\* what it was before the page was extracted.
C14_ContainerFailure ==
  [][(pc = "parse" /\ ~page.box) =>
       /\ pc' \in Ended
       /\ pc' = "ABORTED" => error' = ParseError
       /\ store' = store
       /\ parsedDependents' = <<>>]_vars

\* a rate-limit page after a persisted page has aborted the run
C14_Witness ==
  /\ pc = "ABORTED" /\ error = ParseError
  /\ visited = <<1, 2>>
  /\ store # <<>>

\* C15: per page the steps run in the order extract, dedup, previous-link
\* lookup and stamping, persist, next-link lookup, fetch; page k is persisted
\* before page k+1 is fetched; a failed previous-link lookup aborts before the
\* persist, a failed next-link lookup after it.
C15_StepOrder ==
  [][/\ pc = "parse" => pc' \in {"dedup"} \cup Ended
     /\ pc = "dedup" => pc' \in {"previous", "KILLED"}
     /\ pc = "previous" => pc' \in {"save"} \cup Ended
     /\ pc = "save" => pc' \in {"next", "KILLED"}
     /\ pc = "next" => pc' \in {"goto", "DONE"} \cup Ended
     /\ pc = "goto" => pc' \in {"parse", "KILLED"}
     /\ pc \in {"next", "goto"} => IsSuffix(parsedDependents, store)
     /\ (pc = "goto" /\ pc' = "parse") => page'.url = page.url + 1
     /\ (pc = "previous" /\ getPreviousDependentsPageUrl(page) = THROWS) =>
          (pc' \in Ended /\ store' = store)
     /\ (pc = "next" /\ getNextDependentsPageUrl(page) = THROWS) =>
          (pc' \in Ended /\ store' = store)]_vars

\* the next-link lookup has failed after the page's batch was persisted
C15_Witness ==
  /\ pc = "ABORTED" /\ error = NextError
  /\ ~resumeCrawl /\ visited = <<1>>
  /\ store # <<>>

\* C16: the overwrite flag is true only in a fresh run before its first
\* persist completes; it is false after the first persist of a run and all
\* through a resumed run, and never goes back to true, so at most the first
\* persist of a fresh start writes without reading the store.
C16_OverwriteFlag ==
  [][/\ overwriteDependentsFile =>
          /\ ~resumeCrawl
          /\ pc \in {"parse", "dedup", "previous", "save"}
          /\ Len(visited) <= 1
          /\ store = <<>>
     /\ PersistStep => ~overwriteDependentsFile'
     /\ (~overwriteDependentsFile /\ overwriteDependentsFile') =>
          (pc = "initialize" /\ ~resumeCrawl)
     /\ (PersistStep /\ ~overwriteDependentsFile) =>
          store' = getDependentsFromFile \o parsedDependents]_vars

\* the second persist of a fresh run has appended with the flag cleared
C16_Witness ==
  /\ ~resumeCrawl /\ pc = "next"
  /\ visited = <<1, 2>>
  /\ ~overwriteDependentsFile
  /\ parsedDependents # <<>>
  /\ Len(store) > Len(parsedDependents)

C18_SoleWriter ==
  [][store' # store =>
       \/ pc = "initialize" /\ ~resumeCrawl
       \/ PersistStep]_vars

\* a resumed run has read the last record, fetched its way to the page after
\* the recorded one, extracted, filtered and looked up the previous link, and
\* is about to persist
C18_Witness ==
  /\ resumeCrawl /\ pc = "save"
  /\ store # <<>>
  /\ lastDependent = store[Len(store)]
  /\ lastDependent.previousGithubDependentsPageUrl # null
  /\ page.url = lastDependent.previousGithubDependentsPageUrl + 1
  /\ visited = <<page.url>>

\* t is s with some of its elements left out
RECURSIVE IsSubsequence(_, _)
IsSubsequence(t, s) ==
  IF t = <<>> THEN TRUE
  ELSE IF s = <<>> THEN FALSE
  ELSE IF Head(t) = Head(s) THEN IsSubsequence(Tail(t), Tail(s))
  ELSE IsSubsequence(t, Tail(s))

\* the records of s that equal no record of the store, in order
NewRecords(s) == SelectSeq(s, LAMBDA d : d \notin Range(store))

\* C19: the dedup step never drops a new record and never reorders: every
\* record of the batch that equals no record of the store is in the filtered
\* batch, and the filtered batch is a subsequence of the batch.
C19_NoNewRecordDropped ==
  Filtered =>
    /\ IsSubsequence(parsedDependents, batch)
    /\ NewRecords(parsedDependents) = NewRecords(batch)

\* a duplicate followed by a new record: the new record alone is kept
C19_Witness ==
  /\ Filtered
  /\ Len(batch) = 2
  /\ batch[1] \in Range(store)
  /\ batch[2] \notin Range(store)
  /\ parsedDependents = <<batch[2]>>

\* the store holds a record with the owner, repo, stars and forks of row r
Represented(r) ==
  \E j \in 1..Len(store) :
    /\ store[j].owner = r.owner
    /\ store[j].repo = r.repo
    /\ store[j].stars = r.stars
    /\ store[j].forks = r.forks

====
